---- MODULE Spec2Model ----
(***************************************************************************)
(* Model of the workout sync engine (app/sync.py, app/mappers.py,          *)
(* app/repo.py, app/db.py, app/hevy_client.py, app/exercise_sync.py).      *)
(*                                                                         *)
(* The database is PostgreSQL (ON CONFLICT, ANY(%s)): a statement that     *)
(* fails inside a transaction leaves that transaction aborted, every later *)
(* statement of it fails, and ending it persists nothing.                  *)
(***************************************************************************)
EXTENDS Integers, Sequences, FiniteSets, TLC

(* ------------------------------ bounds --------------------------------- *)
MaxWorkouts == 11      \* largest workout number the remote ever holds
MaxRuns == 2           \* sync invocations per behaviour
MaxFailures == 1       \* injected failures per behaviour
MaxEdits == 1          \* remote edits per behaviour
SmallWorkouts == 2     \* largest workout number beside the endless catalog
MaxPages == 3          \* largest page number a workout loop requests
MaxPageArg == 2        \* largest page argument a caller passes

(* ------------------------- program constants --------------------------- *)
fetch_page_size == 10
template_page_size == 100
MaxTemplatePages == 100

(* ------------------------- JSON values --------------------------------- *)
JNull == [t |-> "null"]
JStr(s) == [t |-> "str", v |-> s]
JInt(n) == [t |-> "int", v |-> n]

\* Python truthiness of a JSON scalar: None, "" and 0 are falsy.
Truthy(j) ==
  CASE j.t = "null" -> FALSE
    [] j.t = "str" -> j.v # ""
    [] j.t = "int" -> j.v # 0

\* Python str() of a JSON scalar that is not None.
PyStr(j) == IF j.t = "str" THEN j.v ELSE ToString(j.v)

\* Python's `a or b` on strings held as JSON scalars.
OrElse(j, dflt) == IF Truthy(j) THEN PyStr(j) ELSE dflt

(* ------------------------- remote fixtures ----------------------------- *)
\* The remote collection: a workout numbered n, its sets' reps at revision rev.
RemoteSets(k, rev) ==
  [i \in 1..k |-> [index |-> JInt(i - 1), reps |-> 5 + rev]]

RemoteExercises(n, rev) ==
  CASE n % 3 = 1 -> << [index |-> JInt(0), title |-> JStr("Squat"), sets |-> RemoteSets(1, rev)],
                       [index |-> JInt(1), title |-> JStr("Bench"), sets |-> RemoteSets(1, rev)] >>
    [] n % 3 = 2 -> << >>
    [] n % 3 = 0 -> << [index |-> JInt(0), title |-> JNull, sets |-> RemoteSets(2, rev)] >>

RemoteWorkout(n, rev) ==
  [id |-> JStr("w" \o ToString(n)),
   title |-> IF n % 4 = 0 THEN JNull ELSE JStr("Legs"),
   exercises |-> RemoteExercises(n, rev)]

\* A remote workout whose id is missing.
BlankWorkout == [id |-> JNull, title |-> JStr("Draft"), exercises |-> << >>]

\* A remote workout whose id is a JSON number.
NumericWorkout(n) == [id |-> JInt(n), title |-> JStr("Run"), exercises |-> RemoteExercises(1, 0)]

RemoteRange(lo, hi, rev) == [i \in 1..(IF hi >= lo THEN hi - lo + 1 ELSE 0) |-> RemoteWorkout(lo + i - 1, rev)]

RemoteOf(lo, hi, rev, blank) ==
  (IF blank THEN << BlankWorkout >> ELSE << >>) \o RemoteRange(lo, hi, rev)

\* The remote catalog: a finite list of templates, or (endless) a remote that
\* answers every page number with the same non-empty page.
Catalog(items) == [items |-> items, endless |-> FALSE]

TemplateFixtures ==
  { Catalog(<< >>),
    Catalog(<< [title |-> "Squat"], [title |-> "  "], [title |-> "Bench"], [title |-> "Squat"] >>),
    Catalog(<< [title |-> "Row"], [title |-> " "], [title |-> "Squat"], [title |-> "Row"] >>) }

EndlessFixtures == { [items |-> << [title |-> "Plank"] >>, endless |-> TRUE] }

(* --------------------------- hevy_client ------------------------------- *)
Min(a, b) == IF a < b THEN a ELSE b

\* One page of a collection: items (page-1)*size+1 .. page*size.
PageOf(coll, page, size) ==
  IF (page - 1) * size >= Len(coll) THEN << >>
  ELSE SubSeq(coll, (page - 1) * size + 1, Min(page * size, Len(coll)))

list_workouts(rem, page, page_size) == [workouts |-> PageOf(rem, page, page_size)]

\* Detail of the workout whose id prints as workout_id.
get_workout(rem, workout_id) ==
  LET hits == {i \in 1..Len(rem) : rem[i].id.t # "null" /\ PyStr(rem[i].id) = workout_id}
  IN  [exercises |-> rem[CHOOSE i \in hits : \A j \in hits : i <= j].exercises]

list_exercise_templates(tpls, page, page_size) ==
  [exercise_templates |-> IF tpls.endless THEN tpls.items
                          ELSE PageOf(tpls.items, page, page_size)]

(* ----------------------------- mappers --------------------------------- *)
\* Row id None is held as the empty string: both are falsy at the caller.
to_workout_row(w) ==
  [id |-> IF w.id.t # "null" THEN PyStr(w.id) ELSE "",
   title |-> OrElse(w.title, "Workout")]

\* Python f-string rendering of an index that may be None.
Fmt(j) == IF j.t = "null" THEN "None" ELSE PyStr(j)

SetId(workout_id, ex_idx, s_idx) == workout_id \o ":" \o Fmt(ex_idx) \o ":" \o Fmt(s_idx)

\* The id is built from the set's reps as well.
SetRowIdWithReps(workout_id, ex, s) ==
  [id |-> SetId(workout_id, ex.index, s.index) \o ":" \o ToString(s.reps),
   workout_id |-> workout_id,
   exercise_index |-> ex.index,
   set_index |-> s.index,
   exercise_title |-> OrElse(ex.title, ""),
   reps |-> s.reps]

\* One element of rows.append({...}) in to_set_rows.
SetRow(workout_id, ex, s) ==
  [id |-> SetId(workout_id, ex.index, s.index),
   workout_id |-> workout_id,
   exercise_index |-> ex.index,
   set_index |-> s.index,
   exercise_title |-> OrElse(ex.title, ""),
   reps |-> s.reps]

RECURSIVE Flatten(_)
Flatten(seqs) == IF seqs = << >> THEN << >> ELSE Head(seqs) \o Flatten(Tail(seqs))

\* Only the first set of every exercise is flattened.
to_set_rowsFirstSet(workout_id, detail) ==
  Flatten([e \in 1..Len(detail.exercises) |->
            [k \in 1..Min(1, Len(detail.exercises[e].sets)) |->
               SetRow(workout_id, detail.exercises[e], detail.exercises[e].sets[k])]])

to_set_rows(workout_id, detail) ==
  Flatten([e \in 1..Len(detail.exercises) |->
            [k \in 1..Len(detail.exercises[e].sets) |->
               SetRow(workout_id, detail.exercises[e], detail.exercises[e].sets[k])]])

(* ------------------------------- repo ---------------------------------- *)
_normalize_workout_params(wr) == [id |-> wr.id, title |-> IF wr.title = "" THEN "Workout" ELSE wr.title]

\* INSERT ... ON CONFLICT (id) DO UPDATE: the row replaces any row of that id.
upsert_workout(tbl, wr) ==
  {r \in tbl : r.id # wr.id} \cup {_normalize_workout_params(wr)}

\* ON CONFLICT (id) DO UPDATE: an existing set row is overwritten.
RECURSIVE insert_sets_bulkUpdating(_, _)
insert_sets_bulkUpdating(tbl, rows) ==
  IF rows = << >> THEN tbl
  ELSE insert_sets_bulkUpdating({r \in tbl : r.id # Head(rows).id} \cup {Head(rows)},
                                Tail(rows))

\* INSERT ... ON CONFLICT (id) DO NOTHING, one row after the other.
RECURSIVE insert_sets_bulk(_, _)
insert_sets_bulk(tbl, rows) ==
  IF rows = << >> THEN tbl
  ELSE insert_sets_bulk(
         IF \E r \in tbl : r.id = Head(rows).id THEN tbl ELSE tbl \cup {Head(rows)},
         Tail(rows))

(* ------------------------------- sync ---------------------------------- *)
\* The loops start at the page the caller asked for.
FirstPageFromArgument(page) == page

\* `current_page = 1` before either loop: the argument is not read.
FirstPage(page) == 1

\* The ids of a page without its last workout.
page_idsTruncated(workouts) ==
  {workouts[i].id : i \in {k \in 1..(Len(workouts) - 1) : Truthy(workouts[k].id)}}

\* {w.get("id") for w in workouts if w.get("id")}
page_ids(workouts) == {workouts[i].id : i \in {k \in 1..Len(workouts) : Truthy(workouts[k].id)}}

\* SELECT id FROM workouts, as Python values.
SelectIds(tbl) == {JStr(r.id) : r \in tbl}

\* The difference taken the wrong way round.
ToDeleteReversed(local_ids, hevy_ids) == hevy_ids \ local_ids

\* Every local workout is taken for deletion.
ToDeleteAll(local_ids, hevy_ids) == local_ids

\* workouts_to_delete = local_workout_ids - hevy_workout_ids
ToDelete(local_ids, hevy_ids) == local_ids \ hevy_ids

\* The sets are matched on their own id instead of their workout's.
delete_setsById(tbl, ids) == {r \in tbl : JStr(r.id) \notin ids}

\* The sets of the deleted workouts are left in their table.
delete_setsNone(tbl, ids) == tbl

\* DELETE FROM sets WHERE workout_id = ANY(ids)
delete_sets(tbl, ids) == {r \in tbl : JStr(r.workout_id) \notin ids}

\* DELETE FROM workouts WHERE id = ANY(ids)
delete_workouts(tbl, ids) == {r \in tbl : JStr(r.id) \notin ids}


(* --------------------------- exercise_sync ----------------------------- *)
\* str.strip() over the titles the remote catalog holds.
Strip(s) == CASE s = "  " -> "" [] s = " " -> "" [] OTHER -> s

\* The loop goes on without the safety limit.
PageLimitNever(page) == FALSE

\* `if page > 100: break`, after page += 1.
PageLimitReached(page) == page > MaxTemplatePages

\* The `for template in all_templates` loop: a template whose stripped title
\* is empty is skipped; INSERT ... ON CONFLICT (exercise_title) DO UPDATE leaves
\* one row per title, and every statement executed counts as an import.
ImportTemplates(tbl, all, n) ==
  LET kept == {i \in 1..Len(all) : Strip(all[i].title) # ""}
      titles == {Strip(all[i].title) : i \in kept}
  IN  [tbl |-> {r \in tbl : r.exercise_title \notin titles}
                 \cup {[exercise_title |-> t] : t \in titles},
       imported_count |-> n + Cardinality(kept)]

\* An empty accumulation is reported as a success.
sync_exercise_templatesEmptyOk(tbl, all_templates, storeFail) ==
  LET imp == ImportTemplates({}, all_templates, 0)
  IN  IF storeFail
      THEN [status |-> "error", imported_count |-> 0, total_templates |-> 0, tbl |-> tbl]
      ELSE [status |-> "success", imported_count |-> imp.imported_count,
            total_templates |-> Len(all_templates), tbl |-> imp.tbl]

\* The catalog is extended instead of replaced.
sync_exercise_templatesMerging(tbl, all_templates, storeFail) ==
  LET imp == ImportTemplates(tbl, all_templates, 0)
  IN  IF all_templates = << >> \/ storeFail
      THEN [status |-> "error", imported_count |-> 0, total_templates |-> 0, tbl |-> tbl]
      ELSE [status |-> "success", imported_count |-> imp.imported_count,
            total_templates |-> Len(all_templates), tbl |-> imp.tbl]

\* DELETE FROM exercises is committed although the import then fails.
sync_exercise_templatesClearing(tbl, all_templates, storeFail) ==
  LET imp == ImportTemplates({}, all_templates, 0)
  IN  IF all_templates = << >>
      THEN [status |-> "error", imported_count |-> 0, total_templates |-> 0, tbl |-> tbl]
      ELSE IF storeFail
      THEN [status |-> "error", imported_count |-> 0, total_templates |-> 0, tbl |-> {}]
      ELSE [status |-> "success", imported_count |-> imp.imported_count,
            total_templates |-> Len(all_templates), tbl |-> imp.tbl]

\* What follows the pagination loop: the empty check, the transaction that
\* clears and refills the catalog, and the outer except. storeFail: the
\* transaction raises and is rolled back.
sync_exercise_templates(tbl, all_templates, storeFail) ==
  LET imp == ImportTemplates({}, all_templates, 0)
  IN  IF all_templates = << >>
      THEN [status |-> "error", imported_count |-> 0, total_templates |-> 0, tbl |-> tbl]
      ELSE IF storeFail
      THEN [status |-> "error", imported_count |-> 0, total_templates |-> 0, tbl |-> tbl]
      ELSE [status |-> "success", imported_count |-> imp.imported_count,
            total_templates |-> Len(all_templates), tbl |-> imp.tbl]

(* ------------------------------ state ---------------------------------- *)
VARIABLES
  rlo, rhi, rrev, rblank,   \* the remote workout collection (see Remote)
  rextra,                   \* remote workouts whose id is not a string
  requests,                 \* the <<page, page_size>> query arguments callers send
  page, page_size,          \* sync_first_page: the arguments of this invocation
  templates,                \* the remote exercise catalog
  dbWorkouts, dbSets, dbExercises,          \* committed tables
  txOpen, txWorkouts, txSets, txFailed,     \* the open transaction's view
  txExercises,              \* the catalog as the open transaction holds it
  pc,                       \* position of the invocation
  current_page, hevy_workout_ids, local_workout_ids, workouts_to_delete,
  workouts_deleted, seen, upserted, sets_total,
  workouts, idx,            \* the page being processed and the position in it
  all_templates, tpage,     \* sync_exercise_templates: all_templates, page
  result,                   \* what the invocation returned
  runs, nfail, edits,       \* counters that bound the behaviours
  fails,                    \* kinds of failure injected into this invocation
  detailFailed,             \* ids whose detail fetch failed in this invocation
  pageNew, insertedNow,     \* set ids inserted: open page / committed, this invocation
  pageUps, committedUps,    \* workout ids upserted: open page / committed, this invocation
  dbAtStart,                \* committed workouts and sets when the invocation began
  steps,                    \* passes this invocation has completed
  calls,                    \* remote calls of this invocation, in order, per call site
  dbExercisesAtStart,       \* the catalog when the invocation began
  lastClean, lastRemote,    \* the previous invocation: failure-free? its remote
  worker                    \* the invocations that run on worker threads

remoteVars == <<rlo, rhi, rrev, rblank, rextra, templates>>
dbVars == <<dbWorkouts, dbSets, dbExercises>>
txVars == <<txOpen, txWorkouts, txSets, txFailed, txExercises>>
localVars == <<current_page, hevy_workout_ids, local_workout_ids, workouts_to_delete,
               workouts_deleted, seen, upserted, sets_total, workouts, idx>>
catVars == <<all_templates, tpage>>
argVars == <<requests, page, page_size>>
histVars == <<fails, detailFailed, pageNew, insertedNow, pageUps, committedUps,
              dbAtStart, steps, lastClean, lastRemote, calls, dbExercisesAtStart>>
vars == <<remoteVars, argVars, dbVars, txVars, pc, localVars, catVars, result, runs,
          nfail, edits, histVars, worker>>

\* A list call is logged as <<page number, length of the page>>, a failed one
\* with length -1; a detail call as <<page number, position in the page>>.
NoCalls ==
  [enum |-> << >>, upsert |-> << >>, templates |-> << >>, detail |-> << >>,
   sizes |-> << >>]

Logged(site, entry) == [calls EXCEPT ![site] = Append(@, entry)]

\* A list_workouts call is logged with the page size it asked for as well.
LoggedList(site, entry, size) ==
  [calls EXCEPT ![site] = Append(@, entry), !.sizes = Append(@, size)]

Remote == rextra \o RemoteOf(rlo, rhi, rrev, rblank)

NoResult == [status |-> "none"]

Workers == {1, 2}

\* What an open transaction has written and not yet committed: workout rows
\* upserted, ids of workout rows deleted, set rows inserted, ids of set rows
\* deleted.
NoWrites == [wUps |-> {}, wDel |-> {}, sIns |-> {}, sDel |-> {}]

\* A worker thread that has not been handed a request: the local variables of
\* sync_first_page, its position, and its transaction.
IdleWorker ==
  [pc |-> "idle", current_page |-> 1, hevy_workout_ids |-> {},
   local_workout_ids |-> {}, workouts_to_delete |-> {}, workouts_deleted |-> 0,
   seen |-> 0, upserted |-> 0, sets_total |-> 0, workouts |-> << >>, idx |-> 1,
   detail |-> [exercises |-> << >>], open |-> FALSE, tx |-> NoWrites,
   met |-> FALSE, result |-> NoResult]

\* No request has been received.
NoInvocation(reqs) ==
  /\ requests = reqs /\ page = 1 /\ page_size = 10
  /\ worker = [t \in Workers |-> IdleWorker]
  /\ txOpen = FALSE /\ txWorkouts = {} /\ txSets = {} /\ txFailed = FALSE
  /\ txExercises = {}
  /\ pc = "idle"
  /\ current_page = 1 /\ hevy_workout_ids = {} /\ local_workout_ids = {}
  /\ workouts_to_delete = {} /\ workouts_deleted = 0
  /\ seen = 0 /\ upserted = 0 /\ sets_total = 0
  /\ workouts = << >> /\ idx = 1
  /\ result = NoResult
  /\ runs = 0 /\ nfail = 0 /\ edits = 0
  /\ fails = {} /\ detailFailed = {}
  /\ pageNew = {} /\ insertedNow = {} /\ pageUps = {} /\ committedUps = {}
  /\ dbAtStart = [w |-> {}, s |-> {}] /\ steps = {}
  /\ lastClean = FALSE /\ lastRemote = << >>
  /\ all_templates = << >> /\ tpage = 1
  /\ calls = NoCalls /\ dbExercisesAtStart = {}

InitWith(his, blanks, extras, catalogs, reqs) ==
  /\ rlo = 1 /\ rhi \in his /\ rrev = 0 /\ rblank \in blanks
  /\ rextra \in extras
  /\ templates \in catalogs
  /\ dbWorkouts = {} /\ dbSets = {} /\ dbExercises = {}
  /\ NoInvocation(reqs)

\* sync_hevy(page: int = 1, page_size: int = 10): a request without a query.
DefaultRequest == {<<1, 10>>}

\* Requests that name a page and a page size.
AnyRequest == (1..MaxPageArg) \X {10, 25}

Init == InitWith(0..MaxWorkouts, BOOLEAN, {<< >>}, TemplateFixtures, DefaultRequest)

\* A few workouts, and a remote catalog that never returns an empty page.
InitEndless == InitWith(0..SmallWorkouts, {FALSE}, {<< >>}, EndlessFixtures, DefaultRequest)

\* A few workouts, and before them one whose id is the number 7 or the number 0.
InitNumeric ==
  InitWith(0..SmallWorkouts, {FALSE}, {<<NumericWorkout(7)>>, <<NumericWorkout(0)>>},
           TemplateFixtures, DefaultRequest)

\* One workout or ten, after one without id, met by requests with any arguments.
InitArgs ==
  InitWith({1, MaxWorkouts - 1}, {TRUE}, {<< >>}, TemplateFixtures, AnyRequest)

\* A failure may be injected while the budget lasts.
MayFail == nfail < MaxFailures

Inject(kind) ==
  /\ MayFail
  /\ nfail' = nfail + 1
  /\ fails' = fails \cup {kind}

NoInject == UNCHANGED <<nfail, fails>>

(* --------------------------- the environment --------------------------- *)
\* Between invocations the remote drops its first workout, gains one, has
\* the reps of its sets edited, or has its exercise catalog replaced.
RemoteEdit ==
  /\ pc = "idle" /\ runs >= 1 /\ edits < MaxEdits
  /\ edits' = edits + 1
  /\ \/ rlo <= rhi /\ rlo' = rlo + 1 /\ UNCHANGED <<rhi, rrev, templates>>
     \/ rhi < MaxWorkouts /\ rhi' = rhi + 1 /\ UNCHANGED <<rlo, rrev, templates>>
     \/ /\ rlo <= rhi /\ rhi < MaxWorkouts /\ rlo' = rlo + 1 /\ rhi' = rhi + 1
        /\ UNCHANGED <<rrev, templates>>
     \/ rrev' = rrev + 1 /\ UNCHANGED <<rlo, rhi, templates>>
     \/ templates' \in TemplateFixtures \ {templates} /\ UNCHANGED <<rlo, rhi, rrev>>
  /\ UNCHANGED <<rblank, rextra, argVars, worker, dbVars, txVars, pc, localVars, catVars, result, runs,
                 nfail, histVars>>

(* ------------------- sync_first_page: lines 25-49 ---------------------- *)
\* POST /sync/hevy calls sync_first_page(page=page, page_size=page_size).
Start ==
  /\ pc = "idle" /\ runs < MaxRuns
  /\ runs' = runs + 1
  /\ pc' = "enum"
  /\ \E a \in requests :
       /\ page' = a[1] /\ page_size' = a[2]
       /\ current_page' = FirstPage(a[1])
  /\ hevy_workout_ids' = {}
  /\ local_workout_ids' = {} /\ workouts_to_delete' = {} /\ workouts_deleted' = 0
  /\ seen' = 0 /\ upserted' = 0 /\ sets_total' = 0
  /\ workouts' = << >> /\ idx' = 1
  /\ result' = NoResult
  /\ fails' = {} /\ detailFailed' = {}
  /\ pageNew' = {} /\ insertedNow' = {} /\ pageUps' = {} /\ committedUps' = {}
  /\ dbAtStart' = [w |-> dbWorkouts, s |-> dbSets] /\ steps' = {}
  /\ all_templates' = << >> /\ tpage' = 1
  /\ calls' = NoCalls /\ dbExercisesAtStart' = dbExercises
  /\ UNCHANGED <<remoteVars, requests, worker, dbVars, txVars, nfail, edits, lastClean,
                 lastRemote>>

\* The failed page is requested again.
AfterEnumFailureRetries == "enum"

\* `except Exception: break` of the two pagination loops: where control goes.
AfterEnumFailure == "recon"

\* The failure ends the invocation instead of the loop.
AfterUpsertFailureReturns == "done"

AfterUpsertFailure == "catalog"

\* The deletion pass is entered again when the upsert loop has ended.
AfterUpsertLoopReconciles == "recon"

\* `if not workouts: break` of the upsert loop: where control goes.
AfterUpsertLoop == "catalog"

\* No page is ever taken for empty.
EmptyPageNever(got) == FALSE

\* `if not workouts: break` of the two pagination loops.
EmptyPage(got) == got = << >>

\* One iteration of the enumeration loop.
EnumPage ==
  /\ pc = "enum" /\ current_page <= MaxPages
  /\ \/ /\ Inject("list_enum")            \* list_workouts raises: break
        /\ calls' = LoggedList("enum", <<current_page, -1>>, fetch_page_size)
        /\ pc' = AfterEnumFailure
        /\ UNCHANGED <<hevy_workout_ids, current_page>>
     \/ /\ NoInject
        /\ LET got == list_workouts(Remote, current_page, fetch_page_size).workouts
           IN  /\ calls' = LoggedList("enum", <<current_page, Len(got)>>, fetch_page_size)
               /\ IF EmptyPage(got)
                  THEN pc' = "recon" /\ UNCHANGED <<hevy_workout_ids, current_page>>
                  ELSE /\ hevy_workout_ids' = hevy_workout_ids \cup page_ids(got)
                       /\ IF Len(got) < fetch_page_size
                          THEN pc' = "recon" /\ UNCHANGED current_page
                          ELSE pc' = "enum" /\ current_page' = current_page + 1
  /\ UNCHANGED <<remoteVars, argVars, worker, dbVars, txVars, local_workout_ids, workouts_to_delete,
                 workouts_deleted, seen, upserted, sets_total, workouts, idx, catVars,
                 result, runs, edits, detailFailed, pageNew, insertedNow, pageUps,
                 committedUps, dbAtStart, steps, lastClean, lastRemote,
                 dbExercisesAtStart>>

(* ------------------- sync_first_page: lines 52-75 ---------------------- *)
\* The exception leaves sync_first_page while its transaction stays open.
RaiseWithoutRollback ==
  /\ pc' = "raised"
  /\ txOpen' = txOpen /\ txWorkouts' = txWorkouts /\ txSets' = txSets
  /\ txFailed' = txFailed
  /\ result' = [status |-> "raised"]

\* An exception inside the block leaves the with statement: the transaction
\* is rolled back and the exception leaves sync_first_page; sync_hevy turns
\* it into HTTP 500.
Raise ==
  /\ pc' = "raised"
  /\ txOpen' = FALSE /\ txWorkouts' = {} /\ txSets' = {} /\ txFailed' = FALSE
  /\ result' = [status |-> "raised"]

reconFrame == <<remoteVars, argVars, worker, dbExercises, txExercises, current_page, hevy_workout_ids,
                seen, upserted, sets_total, workouts, idx, catVars, runs, edits,
                detailFailed, pageNew, insertedNow, pageUps, committedUps, dbAtStart,
                steps, lastClean, lastRemote, calls, dbExercisesAtStart>>

\* get_db() and SELECT id FROM workouts.
ReconSelect ==
  /\ pc = "recon"
  /\ \/ /\ Inject("store_recon")
        /\ Raise
        /\ UNCHANGED <<local_workout_ids, workouts_to_delete>>
     \/ /\ NoInject
        /\ txOpen' = TRUE /\ txWorkouts' = dbWorkouts /\ txSets' = dbSets /\ txFailed' = FALSE
        /\ local_workout_ids' = SelectIds(dbWorkouts)
        /\ workouts_to_delete' = ToDelete(SelectIds(dbWorkouts), hevy_workout_ids)
        /\ pc' = IF ToDelete(SelectIds(dbWorkouts), hevy_workout_ids) # {}
                 THEN "del_sets" ELSE "recon_commit"
        /\ UNCHANGED result
  /\ UNCHANGED <<dbWorkouts, dbSets, workouts_deleted, reconFrame>>

DeleteSets ==
  /\ pc = "del_sets"
  /\ \/ Inject("store_recon") /\ Raise
     \/ /\ NoInject
        /\ txSets' = delete_sets(txSets, workouts_to_delete)
        /\ pc' = "del_workouts"
        /\ UNCHANGED <<txOpen, txWorkouts, txFailed, result>>
  /\ UNCHANGED <<dbWorkouts, dbSets, local_workout_ids, workouts_to_delete,
                 workouts_deleted, reconFrame>>

DeleteWorkouts ==
  /\ pc = "del_workouts"
  /\ \/ Inject("store_recon") /\ Raise /\ UNCHANGED workouts_deleted
     \/ /\ NoInject
        /\ txWorkouts' = delete_workouts(txWorkouts, workouts_to_delete)
        /\ workouts_deleted' = Cardinality(workouts_to_delete)
        /\ pc' = "recon_commit"
        /\ UNCHANGED <<txOpen, txSets, txFailed, result>>
  /\ UNCHANGED <<dbWorkouts, dbSets, local_workout_ids, workouts_to_delete, reconFrame>>

\* The deletions stay uncommitted and their transaction stays open while the
\* upsert pass begins.
ReconCommitDeferred ==
  /\ pc = "recon_commit"
  /\ NoInject
  /\ steps' = steps \cup {"deletion"}
  /\ current_page' = FirstPage(page)
  /\ pc' = "upsert_fetch"
  /\ UNCHANGED <<remoteVars, argVars, worker, dbVars, txVars, hevy_workout_ids, local_workout_ids,
                 workouts_to_delete, workouts_deleted, seen, upserted, sets_total,
                 workouts, idx, catVars, result, runs, edits, detailFailed, pageNew,
                 insertedNow, pageUps, committedUps, dbAtStart, lastClean, lastRemote,
                 calls, dbExercisesAtStart>>

\* Leaving the with block commits; lines 78-84 reset the counters.
ReconCommit ==
  /\ pc = "recon_commit"
  /\ \/ Inject("store_recon") /\ Raise /\ UNCHANGED <<dbWorkouts, dbSets, current_page, steps>>
     \/ /\ NoInject
        /\ steps' = steps \cup {"deletion"}
        /\ dbWorkouts' = txWorkouts /\ dbSets' = txSets
        /\ txOpen' = FALSE /\ txWorkouts' = {} /\ txSets' = {} /\ txFailed' = FALSE
        /\ current_page' = FirstPage(page)
        /\ pc' = "upsert_fetch"
        /\ UNCHANGED result
  /\ UNCHANGED <<remoteVars, argVars, worker, dbExercises, txExercises, hevy_workout_ids,
                 local_workout_ids, workouts_to_delete, workouts_deleted, seen, upserted,
                 sets_total, workouts, idx, catVars, runs, edits, detailFailed, pageNew,
                 insertedNow, pageUps, committedUps, dbAtStart, lastClean, lastRemote,
                 calls, dbExercisesAtStart>>

(* ------------------- sync_first_page: lines 85-132 --------------------- *)
\* list_workouts and get_db() of one iteration of the upsert loop.
FetchPage ==
  /\ pc = "upsert_fetch" /\ current_page <= MaxPages
  /\ LET got == list_workouts(Remote, current_page, 10).workouts
     IN  \/ /\ Inject("list_upsert")            \* list_workouts raises: break
            /\ calls' = LoggedList("upsert", <<current_page, -1>>, 10)
            /\ pc' = AfterUpsertFailure
            /\ UNCHANGED <<txVars, workouts, idx>>
         \/ /\ NoInject /\ EmptyPage(got)        \* if not workouts: break
            /\ calls' = LoggedList("upsert", <<current_page, 0>>, 10)
            /\ pc' = AfterUpsertLoop
            /\ UNCHANGED <<txVars, workouts, idx>>
         \/ /\ ~EmptyPage(got) /\ Inject("begin") \* get_db() raises: break
            /\ calls' = LoggedList("upsert", <<current_page, Len(got)>>, 10)
            /\ pc' = AfterUpsertFailure
            /\ UNCHANGED <<txVars, workouts, idx>>
         \/ /\ NoInject /\ ~EmptyPage(got)
            /\ calls' = LoggedList("upsert", <<current_page, Len(got)>>, 10)
            /\ txOpen' = TRUE /\ txWorkouts' = dbWorkouts /\ txSets' = dbSets
            /\ txFailed' = FALSE /\ UNCHANGED txExercises
            /\ workouts' = got /\ idx' = 1
            /\ pc' = IF got = << >> THEN "page_commit" ELSE "item"
  /\ steps' = steps \cup {"upsert"}
  /\ UNCHANGED <<remoteVars, argVars, worker, dbVars, current_page, hevy_workout_ids, local_workout_ids,
                 workouts_to_delete, workouts_deleted, seen, upserted, sets_total, catVars,
                 result, runs, edits, detailFailed, pageNew, insertedNow, pageUps,
                 committedUps, dbAtStart, lastClean, lastRemote, dbExercisesAtStart>>

ItemFailures == {"none", "map", "upsert", "detail", "insert"}

\* The detail is fetched before the workout is upserted, so a failed fetch
\* skips the workout row too.
ProcessWorkoutDetailFirst(w, tw, ts, failed, rem, f) ==
  LET wr == to_workout_row(w)
      workout_id == wr.id
      skip == [tw |-> tw, ts |-> ts, failed |-> failed, upserted |-> 0, sets |-> 0,
               details |-> 0]
  IN  IF f = "map" THEN skip
      ELSE IF workout_id = "" THEN skip
      ELSE IF f = "detail" THEN [skip EXCEPT !.details = 1]
      ELSE IF failed \/ f = "upsert" THEN [skip EXCEPT !.failed = TRUE, !.details = 1]
      ELSE LET up == [skip EXCEPT !.tw = upsert_workout(tw, wr), !.upserted = 1,
                                  !.details = 1]
               set_rows == to_set_rows(workout_id, get_workout(rem, workout_id))
           IN  IF set_rows = << >> THEN up
               ELSE IF f = "insert" THEN [up EXCEPT !.failed = TRUE]
               ELSE [up EXCEPT !.ts = insert_sets_bulk(ts, set_rows),
                               !.sets = Len(set_rows)]

\* The body of `for w in workouts` for one workout; f is the step that raises.
\* tw, ts: the transaction's tables; failed: the transaction is aborted;
\* details: the number of get_workout calls made.
ProcessWorkout(w, tw, ts, failed, rem, f) ==
  LET wr == to_workout_row(w)
      workout_id == wr.id
      skip == [tw |-> tw, ts |-> ts, failed |-> failed, upserted |-> 0, sets |-> 0,
               details |-> 0]
  IN  IF f = "map" THEN skip
      ELSE IF workout_id = "" THEN skip
      ELSE IF failed \/ f = "upsert" THEN [skip EXCEPT !.failed = TRUE]
      ELSE LET up == [skip EXCEPT !.tw = upsert_workout(tw, wr), !.upserted = 1,
                                  !.details = 1]
           IN  IF f = "detail" THEN up
               ELSE LET set_rows == to_set_rows(workout_id, get_workout(rem, workout_id))
                    IN  IF set_rows = << >> THEN up
                        ELSE IF f = "insert" THEN [up EXCEPT !.failed = TRUE]
                        ELSE [up EXCEPT !.ts = insert_sets_bulk(ts, set_rows),
                                        !.sets = Len(set_rows)]

\* The step f is reached for w, so it can be the one that raises.
Reaches(w, failed, rem, f) ==
  LET workout_id == to_workout_row(w).id
  IN  CASE f = "map" -> TRUE
        [] f \in {"upsert", "detail"} -> workout_id # "" /\ ~failed
        [] f = "insert" -> /\ workout_id # "" /\ ~failed
                           /\ to_set_rows(workout_id, get_workout(rem, workout_id)) # << >>

Item ==
  /\ pc = "item"
  /\ \E f \in ItemFailures :
       /\ IF f = "none" THEN NoInject
          ELSE Reaches(workouts[idx], txFailed, Remote, f) /\ Inject(f)
       /\ LET w == workouts[idx]
              out == ProcessWorkout(w, txWorkouts, txSets, txFailed, Remote, f)
          IN  /\ seen' = seen + 1
              /\ upserted' = upserted + out.upserted
              /\ sets_total' = sets_total + out.sets
              /\ txWorkouts' = out.tw /\ txSets' = out.ts /\ txFailed' = out.failed
              /\ detailFailed' = IF f = "detail" THEN detailFailed \cup {to_workout_row(w).id}
                                 ELSE detailFailed
              /\ pageNew' = pageNew \cup {r.id : r \in out.ts \ txSets}
              /\ pageUps' = IF out.upserted = 1 THEN pageUps \cup {to_workout_row(w).id}
                            ELSE pageUps
              /\ calls' = IF out.details = 1 THEN Logged("detail", <<current_page, idx>>)
                          ELSE calls
  /\ idx' = idx + 1
  /\ pc' = IF idx = Len(workouts) THEN "page_commit" ELSE "item"
  /\ UNCHANGED <<remoteVars, argVars, worker, dbVars, txOpen, txExercises, current_page, hevy_workout_ids,
                 local_workout_ids, workouts_to_delete, workouts_deleted, workouts,
                 catVars, result, runs, edits, insertedNow, committedUps, dbAtStart, steps,
                 lastClean, lastRemote, dbExercisesAtStart>>

\* Leaving `with get_db() as db` of one page, then current_page += 1.
PageCommit ==
  /\ pc = "page_commit"
  /\ \/ /\ txFailed /\ NoInject               \* aborted transaction: nothing persists
        /\ pc' = "upsert_fetch" /\ current_page' = current_page + 1
        /\ UNCHANGED <<dbWorkouts, dbSets, insertedNow, committedUps>>
     \/ /\ ~txFailed /\ NoInject
        /\ dbWorkouts' = txWorkouts /\ dbSets' = txSets
        /\ insertedNow' = insertedNow \cup pageNew
        /\ committedUps' = committedUps \cup pageUps
        /\ pc' = "upsert_fetch" /\ current_page' = current_page + 1
     \/ /\ ~txFailed /\ Inject("commit")      \* commit raises: break
        /\ pc' = AfterUpsertFailure
        /\ UNCHANGED <<dbWorkouts, dbSets, insertedNow, committedUps, current_page>>
  /\ txOpen' = FALSE /\ txWorkouts' = {} /\ txSets' = {} /\ txFailed' = FALSE
  /\ pageNew' = {} /\ pageUps' = {}
  /\ UNCHANGED <<remoteVars, argVars, worker, dbExercises, txExercises, hevy_workout_ids,
                 local_workout_ids, workouts_to_delete, workouts_deleted, seen, upserted,
                 sets_total, workouts, idx, catVars, result, runs, edits, detailFailed,
                 dbAtStart, steps, lastClean, lastRemote, calls, dbExercisesAtStart>>

(* ------------------- sync_first_page: lines 134-153 -------------------- *)
Summary(ex) ==
  [status |-> "returned",
   sync_type |-> "unified_with_deletion",
   workouts_seen |-> seen,
   workouts_upserted |-> upserted,
   sets_inserted |-> sets_total,
   workouts_deleted |-> workouts_deleted,
   total_hevy_workouts |-> Cardinality(hevy_workout_ids),
   total_local_before |-> Cardinality(local_workout_ids),
   exercise_sync |-> [status |-> ex.status, imported_count |-> ex.imported_count,
                      total_templates |-> ex.total_templates]]

(* ---------------- sync_exercise_templates: lines 15-35 ----------------- *)
\* One iteration of the pagination loop of the exercise catalog.
CatalogFetch ==
  /\ pc = "catalog"
  /\ \/ /\ Inject("list_templates")       \* list_exercise_templates raises: break
        /\ calls' = Logged("templates", <<tpage, -1>>)
        /\ pc' = "catalog_store"
        /\ UNCHANGED catVars
     \/ /\ NoInject
        /\ LET got == list_exercise_templates(templates, tpage, template_page_size).exercise_templates
           IN  /\ calls' = Logged("templates", <<tpage, Len(got)>>)
               /\ IF got = << >>
                  THEN pc' = "catalog_store" /\ UNCHANGED catVars
                  ELSE /\ all_templates' = all_templates \o got
                       /\ tpage' = tpage + 1
                       /\ pc' = IF PageLimitReached(tpage + 1) THEN "catalog_store"
                                ELSE "catalog"
  /\ UNCHANGED <<remoteVars, argVars, worker, dbVars, txVars, localVars, result, runs, edits,
                 detailFailed, pageNew, insertedNow, pageUps, committedUps, dbAtStart,
                 steps, lastClean, lastRemote, dbExercisesAtStart>>

(* ---- sync_exercise_templates: lines 37-98; sync_first_page: 137-153 ---- *)
\* The empty check and the body of `with get_db() as db`: DELETE FROM
\* exercises and the inserts, in the transaction. A statement that raises
\* leaves the with block: rollback, and the outer except returns the error.
CatalogStore ==
  /\ pc = "catalog_store"
  /\ \E storeFail \in BOOLEAN :
       /\ IF storeFail THEN all_templates # << >> /\ Inject("store_templates")
          ELSE NoInject
       /\ LET ex == sync_exercise_templates(dbExercises, all_templates, storeFail)
          IN  IF ex.status = "error"
              THEN /\ dbExercises' = ex.tbl
                   /\ result' = Summary(ex)
                   /\ pc' = "done"
                   /\ steps' = steps \cup {"catalog"}
                   /\ UNCHANGED txVars
              ELSE /\ txOpen' = TRUE /\ txExercises' = ex.tbl
                   /\ pc' = "catalog_commit"
                   /\ UNCHANGED <<dbExercises, result, steps, txWorkouts, txSets, txFailed>>
  /\ UNCHANGED <<remoteVars, argVars, worker, dbWorkouts, dbSets, localVars, catVars, runs, edits,
                 detailFailed, pageNew, insertedNow, pageUps, committedUps, dbAtStart,
                 lastClean, lastRemote, calls, dbExercisesAtStart>>

\* Leaving the with block commits, or the commit raises and the outer except
\* returns the error; then the summary sync_first_page returns.
CatalogCommit ==
  /\ pc = "catalog_commit"
  /\ \E storeFail \in BOOLEAN :
       /\ IF storeFail THEN Inject("store_templates") ELSE NoInject
       /\ LET ex == sync_exercise_templates(dbExercises, all_templates, storeFail)
          IN  /\ dbExercises' = IF storeFail THEN ex.tbl ELSE txExercises
              /\ result' = Summary(ex)
  /\ txOpen' = FALSE /\ txExercises' = {}
  /\ pc' = "done"
  /\ steps' = steps \cup {"catalog"}
  /\ UNCHANGED <<remoteVars, argVars, worker, dbWorkouts, dbSets, txWorkouts, txSets, txFailed, localVars,
                 catVars, runs, edits, detailFailed, pageNew, insertedNow, pageUps,
                 committedUps, dbAtStart, lastClean, lastRemote, calls,
                 dbExercisesAtStart>>

\* The HTTP handler has answered; the next request may come.
Return ==
  /\ pc \in {"done", "raised"}
  /\ pc' = "idle"
  /\ lastClean' = (pc = "done" /\ fails = {})
  /\ lastRemote' = <<rlo, rhi, rrev, rblank>>
  /\ UNCHANGED <<remoteVars, argVars, worker, dbVars, txVars, localVars, catVars, result, runs, nfail,
                 edits, fails, detailFailed, pageNew, insertedNow, pageUps, committedUps,
                 dbAtStart, steps, calls, dbExercisesAtStart>>

Next ==
  \/ RemoteEdit
  \/ Start
  \/ EnumPage
  \/ ReconSelect
  \/ DeleteSets
  \/ DeleteWorkouts
  \/ ReconCommit
  \/ FetchPage
  \/ Item
  \/ PageCommit
  \/ CatalogFetch
  \/ CatalogStore
  \/ CatalogCommit
  \/ Return

Spec == Init /\ [][Next]_vars

\* The same program beside a remote catalog that never ends.
SpecEndless == InitEndless /\ [][Next]_vars

\* The same program beside a remote that numbers a workout.
SpecNumeric == InitNumeric /\ [][Next]_vars

\* The same program called with arguments.
SpecArgs == InitArgs /\ [][Next]_vars

\* A step of sync_first_page is possible: the invocation is under way (each
\* of its steps has a branch that needs no failure) and no page bound halts it.
CanStep ==
  /\ pc \notin {"idle", "done", "raised"}
  /\ pc \in {"enum", "upsert_fetch"} => current_page <= MaxPages

\* sync_first_page is synchronous and single-threaded: while a step of it is
\* possible, one is taken. This is weak fairness of the invocation's steps,
\* WF_vars(EnumPage \/ ... \/ CatalogStore), with the enabling condition
\* written out as CanStep; in a state where CanStep holds every step that
\* changes vars is one of them.
Fairness == []<>(~CanStep) \/ []<><<CanStep>>_vars

FairSpec == Spec /\ Fairness

FairSpecEndless == SpecEndless /\ Fairness

TypeOK ==
  /\ pc \in {"idle", "enum", "recon", "del_sets", "del_workouts", "recon_commit",
             "upsert_fetch", "item", "page_commit", "catalog", "catalog_store",
             "catalog_commit", "done", "raised"}
  /\ txOpen \in BOOLEAN /\ txFailed \in BOOLEAN
  /\ nfail \in 0..MaxFailures /\ runs \in 0..MaxRuns
  /\ current_page \in 1..(MaxPages + 1) /\ tpage \in 1..(MaxTemplatePages + 1)
  /\ pc \in {"enum", "upsert_fetch"} => current_page <= MaxPages


(* ------------------ sync_hevy on two worker threads -------------------- *)
\* sync_hevy is a plain `def`, so the server runs each request on a thread of
\* its pool and two invocations of sync_first_page can overlap. The store is
\* PostgreSQL at its default isolation, READ COMMITTED: a statement reads what
\* is committed when it runs and what its own transaction has written, and a
\* statement that is to write a row which another open transaction has
\* written waits until that transaction has ended.
Other(t) == 3 - t

WorkoutLocks(w) == {r.id : r \in w.tx.wUps} \cup w.tx.wDel

SetLocks(w) == {r.id : r \in w.tx.sIns} \cup w.tx.sDel

\* The tables as a commit of tx leaves them, which is also how the statements
\* of tx read them.
CommitWorkouts(tbl, tx) ==
  {r \in tbl : r.id \notin tx.wDel /\ \A q \in tx.wUps : q.id # r.id} \cup tx.wUps

\* A commit that loses the deletions of set rows.
CommitSetsKeeping(tbl, tx) == tbl \cup tx.sIns

CommitSets(tbl, tx) == {r \in tbl : r.id \notin tx.sDel} \cup tx.sIns

workerFrame == <<remoteVars, argVars, txVars, pc, localVars, catVars, result, runs, nfail,
                 edits, histVars>>

\* A request arrives at an idle thread.
WorkerStart ==
  \E t \in Workers :
    /\ worker[t].pc = "idle"
    /\ worker' = [worker EXCEPT ![t] = [IdleWorker EXCEPT !.pc = "enum",
                                                          !.current_page = FirstPage(page)]]
    /\ UNCHANGED <<workerFrame, dbVars>>

\* sync_first_page, lines 30-49.
WorkerEnumPage ==
  \E t \in Workers :
    LET w == worker[t]
        got == list_workouts(Remote, w.current_page, fetch_page_size).workouts
    IN  /\ w.pc = "enum" /\ w.current_page <= MaxPages
        /\ worker' = [worker EXCEPT ![t] =
             IF EmptyPage(got) THEN [w EXCEPT !.pc = "recon"]
             ELSE IF Len(got) < fetch_page_size
             THEN [w EXCEPT !.pc = "recon",
                            !.hevy_workout_ids = @ \cup page_ids(got)]
             ELSE [w EXCEPT !.current_page = @ + 1,
                            !.hevy_workout_ids = @ \cup page_ids(got)]]
        /\ UNCHANGED <<workerFrame, dbVars>>

\* get_db() and SELECT id FROM workouts, lines 54-59.
WorkerSelect ==
  \E t \in Workers :
    LET w == worker[t]
        gone == ToDelete(SelectIds(dbWorkouts), w.hevy_workout_ids)
    IN  /\ w.pc = "recon"
        /\ worker' = [worker EXCEPT ![t] =
             [w EXCEPT !.open = TRUE, !.met = @ \/ worker[Other(t)].open,
                       !.local_workout_ids = SelectIds(dbWorkouts),
                       !.workouts_to_delete = gone,
                       !.pc = IF gone # {} THEN "del_sets" ELSE "recon_commit"]]
        /\ UNCHANGED <<workerFrame, dbVars>>

\* DELETE FROM sets WHERE workout_id = ANY(...), lines 64-67.
WorkerDeleteSets ==
  \E t \in Workers :
    LET w == worker[t]
        hit == {r.id : r \in dbSets \ delete_sets(dbSets, w.workouts_to_delete)}
    IN  /\ w.pc = "del_sets"
        /\ hit \cap SetLocks(worker[Other(t)]) = {}
        /\ worker' = [worker EXCEPT ![t] = [w EXCEPT !.tx.sDel = hit, !.pc = "del_workouts"]]
        /\ UNCHANGED <<workerFrame, dbVars>>

\* DELETE FROM workouts WHERE id = ANY(...), lines 70-75.
WorkerDeleteWorkouts ==
  \E t \in Workers :
    LET w == worker[t]
        hit == {r.id : r \in dbWorkouts \ delete_workouts(dbWorkouts, w.workouts_to_delete)}
    IN  /\ w.pc = "del_workouts"
        /\ hit \cap WorkoutLocks(worker[Other(t)]) = {}
        /\ worker' = [worker EXCEPT ![t] =
             [w EXCEPT !.tx.wDel = hit, !.pc = "recon_commit",
                       !.workouts_deleted = Cardinality(w.workouts_to_delete)]]
        /\ UNCHANGED <<workerFrame, dbVars>>

\* Leaving the with block of the deletion pass; lines 78-84.
WorkerReconCommit ==
  \E t \in Workers :
    LET w == worker[t]
    IN  /\ w.pc = "recon_commit"
        /\ dbWorkouts' = CommitWorkouts(dbWorkouts, w.tx)
        /\ dbSets' = CommitSets(dbSets, w.tx)
        /\ worker' = [worker EXCEPT ![t] =
             [w EXCEPT !.open = FALSE, !.tx = NoWrites, !.pc = "upsert_fetch",
                       !.current_page = FirstPage(page)]]
        /\ UNCHANGED <<workerFrame, dbExercises>>

\* list_workouts and get_db() of one iteration of the upsert loop, lines 87-95.
WorkerFetchPage ==
  \E t \in Workers :
    LET w == worker[t]
        got == list_workouts(Remote, w.current_page, 10).workouts
    IN  /\ w.pc = "upsert_fetch" /\ w.current_page <= MaxPages
        /\ worker' = [worker EXCEPT ![t] =
             IF EmptyPage(got) THEN [w EXCEPT !.pc = AfterUpsertLoop]
             ELSE [w EXCEPT !.open = TRUE, !.met = @ \/ worker[Other(t)].open,
                            !.workouts = got, !.idx = 1, !.pc = "upsert"]]
        /\ UNCHANGED <<workerFrame, dbVars>>

\* The end of the body of `for w in workouts`: the next workout, or the end
\* of the with block.
NextWorkout(w) ==
  IF w.idx = Len(w.workouts) THEN [w EXCEPT !.pc = "page_commit"]
  ELSE [w EXCEPT !.idx = @ + 1, !.pc = "upsert"]

\* to_workout_row and upsert_workout, lines 97-112.
WorkerUpsert ==
  \E t \in Workers :
    LET w == worker[t]
        wr == to_workout_row(w.workouts[w.idx])
    IN  /\ w.pc = "upsert"
        /\ IF wr.id = ""
           THEN worker' = [worker EXCEPT ![t] = NextWorkout([w EXCEPT !.seen = @ + 1])]
           ELSE /\ wr.id \notin WorkoutLocks(worker[Other(t)])
                /\ worker' = [worker EXCEPT ![t] =
                     [w EXCEPT !.seen = @ + 1, !.upserted = @ + 1,
                               !.tx.wUps = upsert_workout(@, wr), !.pc = "detail"]]
        /\ UNCHANGED <<workerFrame, dbVars>>

\* get_workout, lines 115-118.
WorkerDetail ==
  \E t \in Workers :
    LET w == worker[t]
    IN  /\ w.pc = "detail"
        /\ worker' = [worker EXCEPT ![t] =
             [w EXCEPT !.detail = get_workout(Remote, to_workout_row(w.workouts[w.idx]).id),
                       !.pc = "insert"]]
        /\ UNCHANGED <<workerFrame, dbVars>>

\* to_set_rows and insert_sets_bulk, lines 120-126.
WorkerInsert ==
  \E t \in Workers :
    LET w == worker[t]
        set_rows == to_set_rows(to_workout_row(w.workouts[w.idx]).id, w.detail)
        seenRows == CommitSets(dbSets, w.tx)
    IN  /\ w.pc = "insert"
        /\ IF set_rows = << >>
           THEN worker' = [worker EXCEPT ![t] = NextWorkout(w)]
           ELSE /\ {set_rows[i].id : i \in 1..Len(set_rows)} \cap SetLocks(worker[Other(t)]) = {}
                /\ worker' = [worker EXCEPT ![t] =
                     NextWorkout([w EXCEPT !.sets_total = @ + Len(set_rows),
                                           !.tx.sIns = @ \cup (insert_sets_bulk(seenRows, set_rows)
                                                               \ seenRows)])]
        /\ UNCHANGED <<workerFrame, dbVars>>

\* Leaving `with get_db() as db` of one page, then current_page += 1.
WorkerPageCommit ==
  \E t \in Workers :
    LET w == worker[t]
    IN  /\ w.pc = "page_commit"
        /\ dbWorkouts' = CommitWorkouts(dbWorkouts, w.tx)
        /\ dbSets' = CommitSets(dbSets, w.tx)
        /\ worker' = [worker EXCEPT ![t] =
             [w EXCEPT !.open = FALSE, !.tx = NoWrites, !.pc = "upsert_fetch",
                       !.current_page = @ + 1]]
        /\ UNCHANGED <<workerFrame, dbExercises>>

\* sync_exercise_templates over a catalog of less than a page, and the summary.
WorkerCatalog ==
  \E t \in Workers :
    LET w == worker[t]
        ex == sync_exercise_templates(dbExercises, templates.items, FALSE)
    IN  /\ w.pc = "catalog"
        /\ dbExercises' = ex.tbl
        /\ worker' = [worker EXCEPT ![t] =
             [w EXCEPT !.pc = "done",
                       !.result = [status |-> "returned",
                                   workouts_seen |-> w.seen,
                                   workouts_upserted |-> w.upserted,
                                   sets_inserted |-> w.sets_total,
                                   workouts_deleted |-> w.workouts_deleted]]]
        /\ UNCHANGED <<workerFrame, dbWorkouts, dbSets>>

NextOverlap ==
  \/ WorkerStart
  \/ WorkerEnumPage
  \/ WorkerSelect
  \/ WorkerDeleteSets
  \/ WorkerDeleteWorkouts
  \/ WorkerReconCommit
  \/ WorkerFetchPage
  \/ WorkerUpsert
  \/ WorkerDetail
  \/ WorkerInsert
  \/ WorkerPageCommit
  \/ WorkerCatalog

\* The store as a failure-free invocation leaves it beside the remote rem.
SyncedStore(rem) ==
  LET ids == {k \in 1..Len(rem) : to_workout_row(rem[k]).id # ""}
      RowsOf(k) == LET rows == to_set_rows(to_workout_row(rem[k]).id,
                                           get_workout(rem, to_workout_row(rem[k]).id))
                   IN  {rows[i] : i \in 1..Len(rows)}
  IN  [w |-> {_normalize_workout_params(to_workout_row(rem[k])) : k \in ids},
       s |-> UNION {RowsOf(k) : k \in ids}]

\* The remote holds workouts 2..3 or 2..MaxWorkouts after one without id; the
\* store is empty or was synced when the remote held workouts 1..3.
InitOverlap ==
  /\ rlo = 2 /\ rhi \in {3, MaxWorkouts} /\ rrev = 0 /\ rblank = TRUE
  /\ rextra = << >>
  /\ templates \in TemplateFixtures
  /\ \E k \in {0, 3} :
       /\ dbWorkouts = SyncedStore(RemoteOf(1, k, 0, FALSE)).w
       /\ dbSets = SyncedStore(RemoteOf(1, k, 0, FALSE)).s
  /\ dbExercises = {}
  /\ NoInvocation(DefaultRequest)

SpecOverlap == InitOverlap /\ [][NextOverlap]_vars

(* ======================= properties of the engine ====================== *)
\* The remote workouts that carry an id, as the strings the store keys by.
RemoteIds == {PyStr(Remote[i].id) : i \in {k \in 1..Len(Remote) : Truthy(Remote[k].id)}}

LocalIds == {r.id : r \in dbWorkouts}

LocalIdsBefore == {r.id : r \in dbAtStart.w}

\* The invocation has returned its summary and nothing failed during it.
CleanDone == pc = "done" /\ fails = {}

\* C1: after an invocation in which no remote call and no store operation
\* failed, the local workout ids are exactly the ids of the remote workouts,
\* whatever the store held when the invocation began.
C1_LocalEqualsRemote == CleanDone => LocalIds = RemoteIds

\* C1 witness: the store held an id the remote lacks, an id both hold, and
\* lacked an id the remote holds (local {A,B,C}, remote {B,C,D}).
C1_Witness ==
  /\ CleanDone
  /\ LocalIdsBefore \ RemoteIds # {}
  /\ RemoteIds \ LocalIdsBefore # {}
  /\ LocalIdsBefore \cap RemoteIds # {}
  /\ LocalIds = RemoteIds

\* C2: sync_first_page never raises to its caller, whatever fails.
C2_NeverRaises == pc # "raised"

\* C3: a second failure-free invocation against the remote of a first
\* failure-free one leaves the workout rows and the set rows as the first left
\* them, and deletes nothing.
C3_Idempotent ==
  (CleanDone /\ lastClean /\ lastRemote = <<rlo, rhi, rrev, rblank>>)
    => /\ dbWorkouts = dbAtStart.w
       /\ dbSets = dbAtStart.s
       /\ result.workouts_deleted = 0

\* C3 witness: the second of two such invocations has returned and there are
\* workouts and sets to duplicate or lose.
C3_Witness ==
  /\ CleanDone /\ lastClean /\ lastRemote = <<rlo, rhi, rrev, rblank>>
  /\ runs >= 2
  /\ dbWorkouts # {} /\ dbSets # {}
  /\ result.sets_inserted > 0


SetIdsOf(rows) == {rows[i].id : i \in 1..Len(rows)}

\* The set ids the remote detail of workout id yields.
RemoteSetIds(id) == SetIdsOf(to_set_rows(id, get_workout(Remote, id)))

\* C4: when the detail fetch is all that fails in an invocation, the workouts
\* whose fetch failed are still upserted and counted, none of their sets is
\* inserted, and every other remote workout is upserted with its sets.
C4_DetailFailureIsolated ==
  (pc = "done" /\ fails = {"detail"})
    => /\ RemoteIds \subseteq LocalIds
       /\ detailFailed \subseteq committedUps
       /\ result.workouts_upserted = Cardinality(RemoteIds)
       /\ \A x \in detailFailed :
            /\ \A sid \in insertedNow : sid \notin RemoteSetIds(x)
            /\ {r \in dbSets : r.workout_id = x} = {r \in dbAtStart.s : r.workout_id = x}
       /\ \A y \in RemoteIds \ detailFailed :
            RemoteSetIds(y) \subseteq {r.id : r \in dbSets}

\* C4 witness: the fetch failed for a workout that has sets, and workouts
\* after it on the same page and on the next page got theirs.
C4_Witness ==
  /\ pc = "done" /\ fails = {"detail"}
  /\ Len(Remote) > fetch_page_size
  /\ \E p \in 1..fetch_page_size :
       /\ Truthy(Remote[p].id)
       /\ PyStr(Remote[p].id) \in detailFailed
       /\ PyStr(Remote[p].id) \in LocalIds
       /\ RemoteSetIds(PyStr(Remote[p].id)) # {}
       /\ RemoteSetIds(PyStr(Remote[p].id)) \cap {r.id : r \in dbSets} = {}
       /\ \E i \in (p + 1)..fetch_page_size :
            /\ Truthy(Remote[i].id)
            /\ RemoteSetIds(PyStr(Remote[i].id)) \cap insertedNow # {}
  /\ \E i \in (fetch_page_size + 1)..Len(Remote) :
       /\ Truthy(Remote[i].id)
       /\ RemoteSetIds(PyStr(Remote[i].id)) \cap insertedNow # {}

InRecon == pc \in {"recon", "del_sets", "del_workouts", "recon_commit"}

\* C5: reconciliation deletes a workout and its sets in one transaction, the
\* sets first: the committed tables change in one step of the pass, its commit,
\* after which no set and no workout of a deleted id is left; before the
\* workouts are deleted the transaction has already dropped their sets.
C5_DeleteAtomic ==
  /\ [](pc = "del_workouts" =>
          /\ \A r \in txSets : JStr(r.workout_id) \notin workouts_to_delete
          /\ \A id \in workouts_to_delete : \E r \in txWorkouts : JStr(r.id) = id)
  /\ [][InRecon =>
          IF pc = "recon_commit" /\ pc' = "upsert_fetch"
          THEN /\ \A r \in dbSets' : JStr(r.workout_id) \notin workouts_to_delete
               /\ \A r \in dbWorkouts' : JStr(r.id) \notin workouts_to_delete
               /\ \A r \in dbSets' : \E w \in dbWorkouts' : w.id = r.workout_id
          ELSE UNCHANGED <<dbWorkouts, dbSets>>]_vars

\* C5 witness: the pass has committed the deletion of a workout that had sets.
C5_Witness ==
  /\ pc = "upsert_fetch" /\ current_page = 1
  /\ workouts_deleted > 0
  /\ \E r \in dbAtStart.s : JStr(r.workout_id) \in workouts_to_delete
  /\ \A r \in dbSets : JStr(r.workout_id) \notin workouts_to_delete

\* C6: a committed set row keeps its field values; it disappears only in the
\* commit of a reconciliation pass that deletes its workout.
C6_SetsInsertOnly ==
  [][\A r \in dbSets :
       \/ r \in dbSets'
       \/ /\ pc = "recon_commit"
          /\ JStr(r.workout_id) \in workouts_to_delete
          /\ \A q \in dbSets' : q.id # r.id
          /\ \A w \in dbWorkouts' : w.id # r.workout_id]_vars

\* C6 witness: after a failure-free invocation a local set row still carries
\* reps that the remote set of the same workout and indices no longer has.
C6_Witness ==
  /\ CleanDone
  /\ \E r \in dbSets :
       /\ r.workout_id \in RemoteIds
       /\ LET rows == to_set_rows(r.workout_id, get_workout(Remote, r.workout_id))
          IN  \E i \in 1..Len(rows) :
                /\ rows[i].id = r.id
                /\ rows[i].exercise_index = r.exercise_index
                /\ rows[i].set_index = r.set_index
                /\ rows[i].reps # r.reps


SameTriple(a, b) ==
  /\ a.workout_id = b.workout_id
  /\ a.exercise_index = b.exercise_index
  /\ a.set_index = b.set_index

\* Every set row the mapper yields for the remote as it is now.
RemoteSetRows ==
  LET rem == Remote
      RowsOf(y) == LET rows == to_set_rows(y, get_workout(rem, y))
                   IN  {rows[i] : i \in 1..Len(rows)}
  IN  UNION {RowsOf(PyStr(rem[k].id)) : k \in {j \in 1..Len(rem) : Truthy(rem[j].id)}}

\* C7: the id of a set row is determined by (workout id, exercise index, set
\* index): rows stored by any invocation, rows of the open transaction and
\* rows mapped from the remote as it is now agree on the id whenever they agree
\* on the triple, whatever their other fields.
C7_SetIdFromTriple ==
  LET rows == dbSets \cup txSets \cup RemoteSetRows
  IN  \A a \in rows : \A b \in rows : SameTriple(a, b) => a.id = b.id

\* C7 witness: a second invocation has mapped a set whose reps differ from the
\* stored row of the same triple.
C7_Witness ==
  /\ pc = "done" /\ runs >= 2 /\ result.sets_inserted > 0
  /\ LET rows == RemoteSetRows
     IN  \E a \in dbSets : \E b \in rows :
           SameTriple(a, b) /\ a.reps # b.reps /\ a.id = b.id

\* The number of sets in the details of the remote workouts.
RemoteSetCount ==
  Cardinality(UNION {UNION {{<<i, e, k>> : k \in 1..Len(Remote[i].exercises[e].sets)} :
                              e \in 1..Len(Remote[i].exercises)} : i \in 1..Len(Remote)})

AllIdsNonEmpty == \A i \in 1..Len(Remote) : Truthy(Remote[i].id)

\* C8: from an empty store, a failure-free invocation over n remote workouts
\* with non-empty ids and m sets in all reports seen n, upserted n, sets
\* inserted m, deleted 0, local before 0 and remote total n.
C8_SummaryFromEmpty ==
  (CleanDone /\ dbAtStart.w = {} /\ AllIdsNonEmpty)
    => /\ result.workouts_seen = Len(Remote)
       /\ result.workouts_upserted = Len(Remote)
       /\ result.sets_inserted = RemoteSetCount
       /\ result.workouts_deleted = 0
       /\ result.total_local_before = 0
       /\ result.total_hevy_workouts = Len(Remote)

\* C8 witness: two workouts, the first with two exercises of one set each, the
\* second without sets.
C8_Witness ==
  /\ CleanDone /\ dbAtStart.w = {} /\ AllIdsNonEmpty
  /\ Len(Remote) = 2 /\ RemoteSetCount = 2
  /\ Len(Remote[1].exercises) = 2 /\ Len(Remote[2].exercises) = 0
  /\ result.workouts_seen = 2 /\ result.workouts_upserted = 2
  /\ result.sets_inserted = 2 /\ result.workouts_deleted = 0

\* C9: sets_inserted of the summary is the number of set rows this invocation
\* inserted; a row skipped because its id existed is not counted.
C9_CountsInsertedSets == CleanDone => result.sets_inserted = Cardinality(insertedNow)

ListFailures == {"list_enum", "list_upsert"}

\* C10: when list_workouts is all that fails in an invocation, the invocation
\* does not raise: it runs the deletion pass, the upsert pass and the catalog
\* sync, returns a summary, and the workouts of the pages it committed are in
\* the store.
C10_ListFailureEndsLoopOnly ==
  (pc \in {"done", "raised"} /\ fails # {} /\ fails \subseteq ListFailures)
    => /\ pc = "done"
       /\ result.status = "returned"
       /\ steps = {"deletion", "upsert", "catalog"}
       /\ committedUps \subseteq LocalIds

\* C10 witness: the fetch of the second page failed in the upsert loop after
\* the first page was committed.
C10_Witness ==
  /\ pc = "done" /\ fails = {"list_upsert"}
  /\ current_page = 2
  /\ Cardinality(committedUps) >= fetch_page_size - 1
  /\ committedUps \subseteq LocalIds
  /\ result.status = "returned"
  /\ result.workouts_seen = fetch_page_size

(* ------------------------- the exercise catalog ------------------------ *)
\* The first list_exercise_templates call of the invocation returned no
\* template or raised.
ZeroTemplates == calls.templates # << >> /\ calls.templates[1][2] <= 0

\* C11: when the first catalog page is empty or its fetch fails, the summary
\* reports the catalog sync as an error with imported_count 0 and
\* total_templates 0, and still carries the workout counters of the passes
\* that ran before.
C11_EmptyCatalogIsError ==
  (pc = "done" /\ ZeroTemplates)
    => /\ result.status = "returned"
       /\ result.exercise_sync =
            [status |-> "error", imported_count |-> 0, total_templates |-> 0]
       /\ result.workouts_seen = seen
       /\ result.workouts_upserted = upserted
       /\ result.workouts_upserted >= Cardinality(committedUps)
       /\ result.sets_inserted = sets_total
       /\ result.workouts_deleted =
            Cardinality({r \in dbAtStart.w : JStr(r.id) \notin hevy_workout_ids})

\* C11 witness: the remote catalog is not empty, its first fetch failed, and
\* the summary counts workouts upserted and deleted in this invocation.
C11_Witness ==
  /\ pc = "done" /\ ZeroTemplates
  /\ calls.templates = << <<1, -1>> >>
  /\ templates.items # << >>
  /\ result.exercise_sync.status = "error"
  /\ result.workouts_upserted > 0 /\ result.workouts_deleted > 0

NonBlankTitles(all) == {Strip(all[i].title) : i \in 1..Len(all)} \ {""}

CatalogTitles(tbl) == {r.exercise_title : r \in tbl}

\* C12: after a catalog sync that reports success the catalog holds one row
\* per distinct non-blank title of the accumulated templates and no other
\* row, whatever it held before; when no fetch failed the accumulated
\* templates are the whole remote catalog.
C12_CatalogReplaced ==
  (pc = "done" /\ result.exercise_sync.status = "success")
    => /\ CatalogTitles(dbExercises) = NonBlankTitles(all_templates)
       /\ Cardinality(dbExercises) = Cardinality(NonBlankTitles(all_templates))
       /\ "" \notin CatalogTitles(dbExercises) /\ " " \notin CatalogTitles(dbExercises)
       /\ ("list_templates" \notin fails /\ ~templates.endless)
            => all_templates = templates.items

\* C12 witness: the catalog held a title the remote no longer has; the remote
\* has a blank title and a title twice.
C12_Witness ==
  /\ pc = "done" /\ result.exercise_sync.status = "success"
  /\ CatalogTitles(dbExercisesAtStart) \ NonBlankTitles(templates.items) # {}
  /\ CatalogTitles(dbExercisesAtStart) \cap CatalogTitles(dbExercises) # {}
  /\ CatalogTitles(dbExercises) \ CatalogTitles(dbExercisesAtStart) # {}
  /\ \E i \in 1..Len(all_templates) : Strip(all_templates[i].title) = ""
  /\ Len(all_templates) > Cardinality(NonBlankTitles(all_templates)) + 1
  /\ result.exercise_sync.imported_count = 3

(* ------------------------- the deletion pass --------------------------- *)
\* C13: no step removes a committed workout row, or a committed set row of a
\* workout, whose id the remote collection holds at that moment, whether or
\* not a list_workouts call failed during enumeration.
C13_KeepsRemoteWorkouts ==
  [][/\ \A r \in dbWorkouts :
          r.id \in RemoteIds => \E q \in dbWorkouts' : q.id = r.id
     /\ \A r \in dbSets :
          r.workout_id \in RemoteIds => \E q \in dbSets' : q.id = r.id]_vars

\* C14: the deletion pass reads every local workout id, removes exactly the
\* workouts whose id enumeration did not collect together with their sets,
\* leaves the rows of every other workout as they were, issues no DELETE when
\* there is no such workout, and counts the removed workouts in
\* workouts_deleted.
C14_DeletesLocalMinusRemote ==
  /\ [](pc \in {"del_sets", "del_workouts"} =>
          /\ local_workout_ids = SelectIds(dbWorkouts)
          /\ local_workout_ids \ hevy_workout_ids # {}
          /\ workouts_to_delete = local_workout_ids \ hevy_workout_ids)
  /\ [][(pc = "recon_commit" /\ pc' = "upsert_fetch") =>
          /\ local_workout_ids = SelectIds(dbWorkouts)
          /\ dbWorkouts' = {r \in dbWorkouts : JStr(r.id) \in hevy_workout_ids}
          /\ dbSets' = {r \in dbSets : JStr(r.workout_id) \in hevy_workout_ids}
          /\ workouts_deleted' =
               Cardinality(SelectIds(dbWorkouts) \ hevy_workout_ids)]_vars

\* C14 witness: the pass has committed; it removed a workout that enumeration
\* did not collect and kept one that it did, sets included.
C14_Witness ==
  /\ pc = "upsert_fetch" /\ current_page = 1 /\ calls.upsert = << >>
  /\ workouts_deleted = 1 /\ Cardinality(workouts_to_delete) = 1
  /\ \E r \in dbAtStart.w : JStr(r.id) \notin hevy_workout_ids /\ r \notin dbWorkouts
  /\ \E r \in dbAtStart.w : JStr(r.id) \in hevy_workout_ids /\ r \in dbWorkouts
  /\ \E r \in dbAtStart.s : JStr(r.workout_id) \in hevy_workout_ids /\ r \in dbSets

\* A committed workout row or set row is gone after the step.
RowRemoved ==
  \/ \E r \in dbWorkouts : \A q \in dbWorkouts' : q.id # r.id
  \/ \E r \in dbSets : \A q \in dbSets' : q.id # r.id

\* C15: within an invocation rows are removed from the committed tables by one
\* step only, the commit of the deletion pass, and at that step the upsert
\* pass has not yet requested a page, upserted a workout or inserted a set;
\* the upsert pass itself removes no row from its transaction.
C15_DeletesBeforeUpserts ==
  /\ [][RowRemoved =>
          /\ pc = "recon_commit" /\ "deletion" \notin steps
          /\ calls.upsert = << >> /\ seen = 0
          /\ pageUps = {} /\ committedUps = {} /\ pageNew = {} /\ insertedNow = {}]_vars
  /\ [][pc = "item" =>
          /\ \A r \in txWorkouts : \E q \in txWorkouts' : q.id = r.id
          /\ txSets \subseteq txSets']_vars
  /\ [](pc \in {"upsert_fetch", "item", "page_commit"} => "deletion" \in steps)

\* C15 witness: the invocation deleted a workout and then upserted workouts
\* and inserted sets, among them the workout it had deleted.
C15_Witness ==
  /\ pc = "done" /\ workouts_deleted > 0
  /\ committedUps # {} /\ insertedNow # {}
  /\ \E id \in committedUps : JStr(id) \in workouts_to_delete
  /\ \E id \in committedUps : JStr(id) \notin workouts_to_delete

(* --------------------------- the upsert pass --------------------------- *)
\* C16: the upsert loop requests page 1 first, and a list_workouts call that
\* returned fewer workouts than the page size is the last call of the loop.
C16_StopsAtShortPage ==
  \A i \in 1..Len(calls.upsert) :
    /\ calls.upsert[i][1] = i
    /\ (calls.upsert[i][2] >= 0 /\ calls.upsert[i][2] < fetch_page_size)
         => i = Len(calls.upsert)

Ended == pc \in {"done", "raised"}

C18_CatalogLoopBounded ==
  /\ [](/\ Len(calls.templates) <= 100
        /\ \A i \in 1..Len(calls.templates) : calls.templates[i][1] = i)
  /\ [](pc = "catalog" =>
          /\ Len(calls.templates) < 100
          /\ \A i \in 1..Len(calls.templates) : calls.templates[i][2] > 0)
  /\ (pc = "catalog") ~> (pc = "done")

\* C18 witness: beside a remote whose every page holds a template, the loop
\* has stopped after its hundredth call and the invocation has returned.
C18_Witness ==
  /\ pc = "done" /\ templates.endless
  /\ Len(calls.templates) = 100
  /\ calls.templates[100] = <<100, 1>>
  /\ result.exercise_sync.total_templates = 100

(* ---------------------------- remote calls ----------------------------- *)
ListSites == {"enum", "upsert", "templates"}

\* C19: in each pagination loop of an invocation no page number is requested
\* twice and a failed call is the last call of the loop; get_workout is called
\* at most once for a workout summary of a page, and never more often than
\* summaries were processed.
C19_NoRetry ==
  /\ \A site \in ListSites :
       \A i \in 1..Len(calls[site]) :
         /\ \A j \in 1..Len(calls[site]) : i # j => calls[site][i][1] # calls[site][j][1]
         /\ calls[site][i][2] = -1 => i = Len(calls[site])
  /\ \A i \in 1..Len(calls.detail) :
       \A j \in 1..Len(calls.detail) : i # j => calls.detail[i] # calls.detail[j]
  /\ Len(calls.detail) <= seen

\* C19 witness: the invocation has returned; the second page of the upsert
\* loop failed after the workouts of the first page had their detail fetched.
C19_Witness ==
  /\ pc = "done"
  /\ Len(calls.enum) = 2
  /\ calls.upsert = << <<1, fetch_page_size>>, <<2, -1>> >>
  /\ Len(calls.detail) >= fetch_page_size - 1
  /\ calls.templates # << >>

(* ------------------------- failures of the store ----------------------- *)
\* C20: when the upsert of one workout is all that fails in an invocation,
\* that workout alone is skipped: every other remote workout is in the store
\* when the invocation has returned, workouts_upserted counts all but the one,
\* and the detail was fetched for all but the one.
C20_UpsertFailureSkipsOne ==
  (pc = "done" /\ fails = {"upsert"})
    => /\ Cardinality(RemoteIds \ LocalIds) <= 1
       /\ result.workouts_upserted = Cardinality(RemoteIds) - 1
       /\ Len(calls.detail) = Cardinality(RemoteIds) - 1

(* --------------------------- transactions ------------------------------ *)
\* The ids the deletion pass removed, as the strings the store keys by.
DeletedIds == {PyStr(j) : j \in workouts_to_delete}

\* C21: no transaction spans an invocation. The deletion pass and every page
\* of the upsert pass commit on their own: the committed tables change at the
\* commit of the deletion pass and at the commit of a page, no transaction is
\* open between two of them, and once the deletion pass has committed the
\* committed workouts are those the invocation found, less the ones it
\* deleted, plus the ones of the pages committed so far.
C21_CommitsPerPass ==
  /\ [](pc = "upsert_fetch" => ~txOpen /\ "deletion" \in steps)
  /\ [][(dbWorkouts' # dbWorkouts \/ dbSets' # dbSets)
          => pc \in {"recon_commit", "page_commit"} /\ txOpen /\ ~txOpen']_vars
  /\ []("deletion" \in steps
          => LocalIds = (LocalIdsBefore \ DeletedIds) \cup committedUps)

\* C21 witness: between two pages of a failure-free invocation a reader of the
\* committed tables finds the deleted workout and its sets gone, the first
\* page upserted, and a remote workout of the next page not yet there.
C21_Witness ==
  /\ pc = "upsert_fetch" /\ current_page = 2 /\ fails = {} /\ ~txOpen
  /\ workouts_deleted > 0
  /\ \E r \in dbAtStart.s : r.workout_id \in DeletedIds
  /\ \A r \in dbWorkouts : r.id \notin DeletedIds
  /\ \A r \in dbSets : r.workout_id \notin DeletedIds
  /\ committedUps # {} /\ committedUps \subseteq LocalIds
  /\ RemoteIds \ LocalIds # {}

\* The positions of an invocation inside a `with get_db()` block.
InTransaction ==
  pc \in {"del_sets", "del_workouts", "recon_commit", "item", "page_commit",
          "catalog_commit"}

\* A step writes to the committed store.
StoreChanges == dbWorkouts' # dbWorkouts \/ dbSets' # dbSets \/ dbExercises' # dbExercises

\* C22: every access to the store is made in a get_db() transaction. One is
\* open exactly inside the three with blocks, so never two at a time and none
\* when the invocation has returned or raised; a closed one holds nothing. A
\* write reaches the committed tables only by the commit that ends its
\* transaction on normal exit of the block (a transaction the database has
\* aborted after a failed statement commits nothing); an exception that leaves
\* the block ends the transaction and leaves the committed tables as they
\* were.
C22_ScopedTransactions ==
  /\ [](txOpen <=> InTransaction)
  /\ [](~txOpen => /\ txWorkouts = {} /\ txSets = {} /\ txExercises = {}
                   /\ ~txFailed)
  /\ [][StoreChanges =>
          /\ txOpen /\ ~txOpen' /\ ~txFailed /\ nfail' = nfail
          /\ IF pc = "catalog_commit"
             THEN dbExercises' = txExercises /\ UNCHANGED <<dbWorkouts, dbSets>>
             ELSE /\ pc \in {"recon_commit", "page_commit"}
                  /\ dbWorkouts' = txWorkouts /\ dbSets' = txSets
                  /\ UNCHANGED dbExercises]_vars
  /\ [][(txOpen /\ ~txOpen' /\ nfail' = nfail /\ ~txFailed) =>
          IF pc = "catalog_commit" THEN dbExercises' = txExercises
          ELSE dbWorkouts' = txWorkouts /\ dbSets' = txSets]_vars
  /\ [][(txOpen /\ nfail' > nfail
            /\ pc \in {"del_sets", "del_workouts", "recon_commit", "page_commit",
                       "catalog_commit"})
          => ~txOpen' /\ UNCHANGED dbVars]_vars
  /\ [][(~txOpen /\ txOpen') =>
          /\ pc \in {"recon", "upsert_fetch", "catalog_store"}
          /\ IF pc = "catalog_store" THEN txWorkouts' = {} /\ txSets' = {}
             ELSE txWorkouts' = dbWorkouts /\ txSets' = dbSets /\ txExercises' = {}]_vars

\* C22 witness: an invocation has raised out of the deletion block after the
\* block had deleted rows in its transaction; the rows are still committed and
\* no transaction is open.
C22_Witness ==
  /\ pc = "raised" /\ ~txOpen
  /\ workouts_to_delete # {} /\ workouts_deleted > 0
  /\ dbWorkouts = dbAtStart.w /\ dbSets = dbAtStart.s
  /\ \E r \in dbWorkouts : JStr(r.id) \in workouts_to_delete
  /\ "store_recon" \in fails

(* ----------------------- sets and their workouts ----------------------- *)
\* The committed set rows whose workout_id is the id of no committed workout.
OrphanSets == {r \in dbSets : \A w \in dbWorkouts : w.id # r.workout_id}

\* C23: from an empty store, whatever fails in whatever invocation, every
\* committed set row belongs to a committed workout row.
C23_NoOrphanSets == OrphanSets = {}

\* C23 witness: an invocation in which something failed has returned; it
\* deleted a workout that had sets, and kept or inserted sets of others.
C23_Witness ==
  /\ pc = "done" /\ fails # {} /\ runs >= 2
  /\ workouts_deleted > 0
  /\ \E r \in dbAtStart.s : r.workout_id \in DeletedIds /\ r \notin dbSets
  /\ dbSets # {}
  /\ \A r \in dbSets : \E w \in dbWorkouts : w.id = r.workout_id

(* --------------------------- workout identity -------------------------- *)
\* The invocation and the one before it were failure-free and met the same
\* remote.
SecondCleanRun == CleanDone /\ lastClean /\ lastRemote = <<rlo, rhi, rrev, rblank>>

\* C24: when a failure-free invocation has returned, every workout id its
\* upsert pass wrote is in the id set its enumeration collected, and a second
\* such invocation against the same remote deletes nothing.
C24_IdsAgree ==
  /\ CleanDone => \A id \in committedUps : JStr(id) \in hevy_workout_ids
  /\ SecondCleanRun => result.workouts_deleted = 0

(* ------------------- the arguments of the entrypoint ------------------- *)
\* What a failure-free invocation does, as a function of the remote and of
\* the store it found: the list calls over n workouts, ...
ExpectedPage(n, i) ==
  IF n - fetch_page_size * (i - 1) <= 0 THEN 0
  ELSE Min(fetch_page_size, n - fetch_page_size * (i - 1))

ExpectedEnumCalls(n) ==
  [i \in 1..(n \div fetch_page_size + 1) |-> <<i, ExpectedPage(n, i)>>]

ExpectedUpsertCalls(n) ==
  [i \in 1..((n + fetch_page_size - 1) \div fetch_page_size + 1) |-> <<i, ExpectedPage(n, i)>>]

\* ... the committed tables, ...
ExpectedWorkouts ==
  {_normalize_workout_params(to_workout_row(Remote[i])) :
     i \in {k \in 1..Len(Remote) : to_workout_row(Remote[k]).id # ""}}

ExpectedSets ==
  LET kept == {r \in dbAtStart.s : r.workout_id \in RemoteIds}
  IN  kept \cup {r \in RemoteSetRows : \A k \in kept : k.id # r.id}

ExpectedExercises ==
  IF templates.items = << >> THEN dbExercisesAtStart
  ELSE {[exercise_title |-> t] : t \in NonBlankTitles(templates.items)}

\* ... and the summary.
ExpectedSummary ==
  [status |-> "returned",
   sync_type |-> "unified_with_deletion",
   workouts_seen |-> Len(Remote),
   workouts_upserted |-> Cardinality(RemoteIds),
   sets_inserted |-> RemoteSetCount,
   workouts_deleted |-> Cardinality(LocalIdsBefore \ RemoteIds),
   total_hevy_workouts |-> Cardinality(RemoteIds),
   total_local_before |-> Cardinality(LocalIdsBefore),
   exercise_sync |->
     IF templates.items = << >>
     THEN [status |-> "error", imported_count |-> 0, total_templates |-> 0]
     ELSE [status |-> "success",
           imported_count |->
             Cardinality({i \in 1..Len(templates.items) : Strip(templates.items[i].title) # ""}),
           total_templates |-> Len(templates.items)]]

\* C25: whatever page and page_size the caller passes, both loops request the
\* pages 1, 2, 3, ... with page size 10, and a failure-free invocation makes
\* the list calls, leaves the tables and returns the summary that the remote
\* and the store it found determine.
C25_ArgumentsIgnored ==
  /\ \A site \in {"enum", "upsert"} :
       \A i \in 1..Len(calls[site]) : calls[site][i][1] = i
  /\ \A i \in 1..Len(calls.sizes) : calls.sizes[i] = 10
  /\ CleanDone =>
       /\ calls.enum = ExpectedEnumCalls(Len(Remote))
       /\ calls.upsert = ExpectedUpsertCalls(Len(Remote))
       /\ Len(calls.sizes) = Len(calls.enum) + Len(calls.upsert)
       /\ dbWorkouts = ExpectedWorkouts
       /\ dbSets = ExpectedSets
       /\ dbExercises = ExpectedExercises
       /\ result = ExpectedSummary

\* C25 witness: called with page 2 and page size 25, a failure-free invocation
\* over a full page and one more workout has returned; its loops asked for
\* pages 1 and 2, ten workouts a page, and deleted a workout.
C25_Witness ==
  /\ CleanDone /\ page = 2 /\ page_size = 25
  /\ Len(Remote) = fetch_page_size + 1
  /\ calls.enum = << <<1, 10>>, <<2, 1>> >>
  /\ calls.upsert = << <<1, 10>>, <<2, 1>>, <<3, 0>> >>
  /\ result.workouts_seen = fetch_page_size + 1
  /\ result.workouts_upserted = fetch_page_size
  /\ result.workouts_deleted = 1

(* --------------------------- the catalog step -------------------------- *)
CatalogStep == pc \in {"catalog", "catalog_store", "catalog_commit"}

\* C26: the catalog step writes to the exercises table only, and only by the
\* commit of its one transaction, which replaces the whole table; until then,
\* and for good when the step reports an error, the committed catalog is the
\* one the invocation found.
C26_CatalogErrorKeepsCatalog ==
  /\ [][CatalogStep =>
          /\ UNCHANGED <<dbWorkouts, dbSets, txWorkouts, txSets>>
          /\ dbExercises' # dbExercises =>
               /\ pc = "catalog_commit"
               /\ result'.exercise_sync.status = "success"
               /\ CatalogTitles(dbExercises') = NonBlankTitles(all_templates)]_vars
  /\ [](CatalogStep => dbExercises = dbExercisesAtStart)
  /\ []((pc = "done" /\ result.exercise_sync.status = "error")
          => dbExercises = dbExercisesAtStart)

\* C26 witness: the store failed while a catalog that differs from the
\* committed one was being imported; the step reported the error and the
\* committed catalog, workouts and sets are as they were before the step.
C26_Witness ==
  /\ pc = "done" /\ result.exercise_sync.status = "error"
  /\ fails = {"store_templates"}
  /\ all_templates # << >>
  /\ dbExercisesAtStart # {} /\ dbExercises = dbExercisesAtStart
  /\ NonBlankTitles(all_templates) # CatalogTitles(dbExercises)
  /\ dbWorkouts # {} /\ dbSets # {}

(* ----------------------------- C27 ------------------------------------ *)
BothReturned == \A t \in Workers : worker[t].pc = "done"

\* C27: when two invocations run on two worker threads against an unchanged
\* remote and no call fails, then however their remote calls, statements and
\* commits interleave, once both have returned the ids of the local workouts
\* are the ids of the remote workouts, no two set rows share an id, and every
\* set row belongs to a stored workout.
C27_OverlapConverges ==
  BothReturned =>
    /\ LocalIds = RemoteIds
    /\ \A a, b \in dbSets : a.id = b.id => a = b
    /\ OrphanSets = {}

\* Both invocations have returned, each found the stale workout and deleted
\* it, a transaction of one was opened while one of the other was open, and
\* the remote spans two pages.
C27_Witness ==
  /\ BothReturned
  /\ \A t \in Workers : worker[t].result.workouts_deleted = 1
  /\ \E t \in Workers : worker[t].met
  /\ rhi = MaxWorkouts
  /\ dbSets # {}

====
